---- MODULE Spec2Model ----
(***************************************************************************)
(* Synchronization & Notification Engine of the CRM dashboard              *)
(* (src/src/App.tsx): the polling effect, fetchData and its change         *)
(* detection, the notification journal, the toast list with its expiry     *)
(* timers, and the session token that gates polling.                       *)
(*                                                                         *)
(* Granularity.  JavaScript runs one task at a time, so each action below  *)
(* is one task of the event loop: an event handler, a timer callback, or   *)
(* the continuation of an await, together with the React re-render and     *)
(* the effects that the state updates of that task cause.                  *)
(*                                                                         *)
(* Specifications.                                                         *)
(*   Spec          the engine: session, polling, fetchData with its change *)
(*                 detection and the addNotification calls it makes.       *)
(*   SpecBatch     the batch issued at mount, one request at a time, with  *)
(*                 the settling rule of Promise.all.                       *)
(*   SpecJournal   the journal and the toast list under addNotification    *)
(*                 and the four handlers of the authenticated view.  These *)
(*                 handlers read and write only notifications, toasts and  *)
(*                 toastTimers, which the engine changes only through      *)
(*                 addNotification.                                        *)
(*   SpecCapacity  addNotification called MaxAppends times in a row.       *)
(*   SpecNormalize formatMessageForDisplay applied to one raw message.     *)
(*   SpecJournalSession  SpecJournal with the refresh button, logout and   *)
(*                 login.                                                  *)
(*   SpecMutation  the status updates, with the refreshes they start.      *)
(*   SpecFilter    the engine with the appointment status filter, against  *)
(*                 a backend whose records never change.                   *)
(*   SpecRelogin   the engine from the state a logged-out session leaves.  *)
(***************************************************************************)
EXTENDS Integers, Sequences, FiniteSets, Bags, TLC

(***************************************************************************)
(* Program constants                                                       *)
(***************************************************************************)
JournalCap == 50
ToastMs == 6000
PollIntervalMs == 15000

(***************************************************************************)
(* Bounds of the model                                                     *)
(***************************************************************************)
\* Distinct booking ids of appointments; of diagnostics and of admissions.
MaxAppointmentId == 2
MaxOtherId == 1
\* Records in one batch of responses, over the three watched collections.
MaxRecords == 2
\* fetchData calls awaiting their responses at the same time.
MaxInflight == 2
\* addNotification calls in one run of Spec and of SpecJournal.
MaxNotifs == 2
\* Distinct values the random notification id can take.
MaxNotifId == 2
\* handleLogout calls awaiting their response at the same time.
MaxLogouts == 1
\* addNotification calls in one run of SpecCapacity.
MaxAppends == 60
\* Pieces in a free-form message; buttons in a structured message.
\* Status updates awaiting their PUT.
MaxWrites == 1

MaxPieces == 4
MaxButtons == 2

(***************************************************************************)
(* Data                                                                    *)
(***************************************************************************)
NoToken == "null"
SessionToken == "token"
NoUser == "null"
SessionUser == "user"

\* Variant that examines the types in the opposite order.
TypesReversed == <<"admission", "diagnostic", "appointment">>

\* The three watched resource types, in the order fetchData examines them.
Types == <<"appointment", "diagnostic", "admission">>
TypeSet == {Types[i] : i \in 1..Len(Types)}

\* The eight requests of one Promise.all batch.
Resources ==
  {"stats", "weekly", "feed", "patients", "appointments", "diagnostics",
   "admissions", "today"}

\* The response (and store slot) that carries the records of a watched type.
ResourceOf(t) ==
  CASE t = "appointment" -> "appointments"
    [] t = "diagnostic" -> "diagnostics"
    [] t = "admission" -> "admissions"

Watched == {ResourceOf(t) : t \in TypeSet}
Unwatched == Resources \ Watched

\* A record is modelled by its identity (booking_id / admission_id): its
\* other fields are only copied into the text of a notification.
IdsFor(t) == IF t = "appointment" THEN 1..MaxAppointmentId ELSE 1..MaxOtherId

\* What Math.random().toString(36).substr(2, 9) can return.
NotifIds == 1..MaxNotifId

RECURSIVE SeqsUpTo(_, _)
SeqsUpTo(S, n) ==
  IF n = 0 THEN {<<>>}
  ELSE LET shorter == SeqsUpTo(S, n - 1)
       IN shorter \cup {Append(s, x) : s \in {q \in shorter : Len(q) = n - 1}, x \in S}

ListsFor(t) == SeqsUpTo(IdsFor(t), MaxRecords)

\* Payload of a resource the engine only stores.
InitialData == "initial"
Payload == "data"

\* The data of one fully successful batch.
Response(a, d, m) ==
  [r \in Resources |->
     CASE r = "appointments" -> a
       [] r = "diagnostics" -> d
       [] r = "admissions" -> m
       [] OTHER -> Payload]

Responses ==
  {Response(x[1], x[2], x[3]) :
     x \in {y \in ListsFor("appointment") \X ListsFor("diagnostic") \X ListsFor("admission") :
              Len(y[1]) + Len(y[2]) + Len(y[3]) <= MaxRecords}}

IdsOf(list) == {list[i] : i \in 1..Len(list)}

VARIABLES
  token,            \* useState token (line 193)
  user,             \* useState user (line 194)
  loading,          \* useState loading (line 166)
  store,            \* the eight collections set by fetchData (lines 158-165)
  lastProcessedIds, \* useRef of the three seen-identity sets (line 183)
  notifications,    \* useState notifications: the journal (line 178)
  toasts,           \* useState toasts (line 180)
  toastTimers,      \* pending setTimeout callbacks of addNotification, FIFO
  pollTimers,       \* the setInterval timers currently scheduled
  inflight,         \* bag of fetchData calls awaiting Promise.all
  requests,         \* the eight requests of the mount-time batch (SpecBatch)
  logoutsInFlight,  \* handleLogout calls awaiting POST /api/auth/logout
  lastPoll,         \* outcome of the most recently settled fetchData call
  observed,         \* identities delivered so far by successful batches
  appends,          \* number of addNotification calls made so far
  message,          \* the raw message of the feed item being rendered
  display,          \* what formatMessageForDisplay returned for it
  writes,           \* bag of status updates awaiting their PUT (lines 391-416)
  appointmentFilter \* useState appointmentFilter (line 170)

vars ==
  <<token, user, loading, store, lastProcessedIds, notifications, toasts,
    toastTimers, pollTimers, inflight, requests, logoutsInFlight, lastPoll,
    observed, appends, message, display, writes, appointmentFilter>>

(***************************************************************************)
(* Notification journal and toast list (addNotification, lines 232-246)    *)
(***************************************************************************)
Min(a, b) == IF a < b THEN a ELSE b

\* Variant without the slice: [newNotif, ...prev].
JournalAppendUncapped(prev, newNotif) == <<newNotif>> \o prev

\* [newNotif, ...prev].slice(0, 50)
JournalAppend(prev, newNotif) ==
  SubSeq(<<newNotif>> \o prev, 1, Min(Len(prev) + 1, JournalCap))

\* [...prev, newNotif]
ToastShow(prev, newNotif) == Append(prev, newNotif)

\* prev.filter(t => t.id !== id)
ToastRemove(prev, id) == SelectSeq(prev, LAMBDA t : t.id # id)

\* setTimeout(() => setToasts(...newNotif.id...), 6000): the callback keeps
\* the notification it was created for.
ToastTimer(newNotif) == [notif |-> newNotif, delay |-> ToastMs]

\* Variant of markRead that drops the record it is given.
MarkReadRemoves(prev, id) == SelectSeq(prev, LAMBDA n : n.id # id)

\* prev.map(notif => notif.id === id ? { ...notif, read: true } : notif)
MarkReadOp(prev, id) ==
  [i \in 1..Len(prev) |->
     IF prev[i].id = id THEN [prev[i] EXCEPT !.read = TRUE] ELSE prev[i]]

\* prev.map(n => ({ ...n, read: true }))
MarkAllReadOp(prev) == [i \in 1..Len(prev) |-> [prev[i] EXCEPT !.read = TRUE]]

\* notifications.filter(n => !n.read).length
UnreadCount(journal) == Cardinality({i \in 1..Len(journal) : ~journal[i].read})

\* The journal/toast part of the state, as addNotification transforms it.
\* notif.ref stands for the title, message, patientName and source built
\* from the record the notification is about; id is the random id drawn.
AddNotification(j, notif, id) ==
  LET newNotif == [id |-> id, type |-> notif.type, ref |-> notif.ref, read |-> FALSE]
  IN [notifications |-> JournalAppend(j.notifications, newNotif),
      toasts |-> ToastShow(j.toasts, newNotif),
      toastTimers |-> Append(j.toastTimers, ToastTimer(newNotif)),
      appends |-> j.appends + 1]

JournalState ==
  [notifications |-> notifications, toasts |-> toasts,
   toastTimers |-> toastTimers, appends |-> appends]

(***************************************************************************)
(* Change detection (fetchData, lines 283-337)                             *)
(***************************************************************************)
\* Variant that ignores the captured loading flag.
DetectionAlways(closure) == TRUE

\* if (!loading): loading is the value captured by the fetchData closure.
DetectionRuns(closure) == ~closure.loading

\* Variant without the initial tracking branch.
InitialTrackingNever(seen) == FALSE

\* if (lastProcessedIds.current.appointments.size === 0)
InitialTracking(seen) == seen["appointments"] = {}

\* Variant without the has() test.
IsNewAlways(seenOfType, id) == TRUE

\* if (!lastProcessedIds.current.<type>.has(id))
IsNew(seenOfType, id) == id \notin seenOfType

\* newX.forEach(a => lastProcessedIds.current.X.add(a.id)), for the three types
TrackAll(seen, resp) == [w \in Watched |-> seen[w] \cup IdsOf(resp[w])]

\* Variant of the loop that notifies without recording the identity.
RECURSIVE DetectListNoAdd(_, _, _, _)
DetectListNoAdd(list, t, d, ids) ==
  IF list = <<>> THEN d
  ELSE IF IsNew(d.seen[ResourceOf(t)], Head(list))
       THEN DetectListNoAdd(Tail(list), t,
              [d EXCEPT !.j = AddNotification(d.j, [type |-> t, ref |-> Head(list)],
                                              ids[d.k + 1]),
                        !.k = d.k + 1],
              ids)
       ELSE DetectListNoAdd(Tail(list), t, d, ids)

\* One forEach loop of the else branch: d = [seen, j, k], where k counts the
\* notifications this pass has added and ids[k + 1] is the next random id.
RECURSIVE DetectList(_, _, _, _)
DetectList(list, t, d, ids) ==
  IF list = <<>> THEN d
  ELSE LET a == Head(list)
           w == ResourceOf(t)
       IN IF IsNew(d.seen[w], a)
          THEN DetectList(Tail(list), t,
                 [seen |-> [d.seen EXCEPT ![w] = @ \cup {a}],
                  j |-> AddNotification(d.j, [type |-> t, ref |-> a], ids[d.k + 1]),
                  k |-> d.k + 1],
                 ids)
          ELSE DetectList(Tail(list), t, d, ids)

\* The three loops in source order: appointments, diagnostics, admissions.
RECURSIVE DetectTypes(_, _, _, _)
DetectTypes(i, resp, d, ids) ==
  IF i > Len(Types) THEN d
  ELSE DetectTypes(i + 1, resp,
         DetectList(resp[ResourceOf(Types[i])], Types[i], d, ids), ids)

\* The whole detection block for one successful batch.
Detection(closure, seen, j, resp, ids) ==
  LET d0 == [seen |-> seen, j |-> j, k |-> 0]
  IN IF ~DetectionRuns(closure) THEN d0
     ELSE IF InitialTracking(seen) THEN [d0 EXCEPT !.seen = TrackAll(seen, resp)]
     ELSE DetectTypes(1, resp, d0, ids)

\* How many random ids the pass draws (one per addNotification call).
Draws(closure, seen, j, resp) ==
  Detection(closure, seen, j, resp, [i \in 1..MaxRecords |-> 1]).k

(***************************************************************************)
(* The polling effect (lines 346-352), run after a render whose            *)
(* dependencies [fetchData, token] changed.  fetchData is re-created when  *)
(* `loading` changes (line 344).                                           *)
(***************************************************************************)
DepsChanged(oldTok, oldLoading, newTok, newLoading) ==
  oldTok # newTok \/ oldLoading # newLoading

HasSession(tok) == tok # NoToken

\* Variant of the effect that returns no cleanup.
EffectNoCleanup(timers, oldTok) == timers

\* return () => clearInterval(interval): the cleanup of the previous run,
\* which exists when that run had a token.
EffectCleanup(timers, oldTok) == IF HasSession(oldTok) THEN Tail(timers) ELSE timers

\* if (token) { ...; setInterval(fetchData, 15000) }
EffectSchedule(timers, newTok) ==
  IF HasSession(newTok) THEN Append(timers, PollIntervalMs) ELSE timers

\* Variant of the effect whose re-run schedules without clearing.
EffectTimersKeepOld(timers, oldTok, newTok, changed) ==
  IF changed THEN EffectSchedule(timers, newTok) ELSE timers

EffectTimers(timers, oldTok, newTok, changed) ==
  IF changed THEN EffectSchedule(EffectCleanup(timers, oldTok), newTok) ELSE timers

\* A fetchData call: the closure carries the `loading` it was created with.
Closure(l) == [loading |-> l]
Issue(bag, l) == bag (+) SetToBag({Closure(l)})

\* if (token) fetchData();
EffectFetches(bag, newTok, newLoading, changed) ==
  IF changed /\ HasSession(newTok) THEN Issue(bag, newLoading) ELSE bag

(***************************************************************************)
(* Initial state: App mounted, token read from localStorage (line 193).    *)
(* With a stored token the mount effect has already called fetchData and   *)
(* scheduled the interval.                                                 *)
(***************************************************************************)
\* The initial value of appointmentFilter.
AllStatuses == "all"

NoPoll == [kind |-> "none", applied |-> {}, rethrown |-> FALSE]

InitFor(tok, req) ==
  /\ token = tok
  /\ user = IF HasSession(tok) THEN SessionUser ELSE NoUser
  /\ loading = TRUE
  /\ store = [r \in Resources |-> IF r \in Watched THEN <<>> ELSE InitialData]
  /\ lastProcessedIds = [w \in Watched |-> {}]
  /\ notifications = <<>>
  /\ toasts = <<>>
  /\ toastTimers = <<>>
  /\ pollTimers = EffectTimers(<<>>, NoToken, tok, TRUE)
  /\ inflight = EffectFetches(EmptyBag, tok, TRUE, TRUE)
  /\ requests = [r \in Resources |-> req]
  /\ logoutsInFlight = 0
  /\ lastPoll = NoPoll
  /\ observed = [t \in TypeSet |-> {}]
  /\ appends = 0
  /\ writes = EmptyBag
  /\ appointmentFilter = AllStatuses

\* No feed item has been rendered yet.
NoMessage == <<>>
NoDisplay == [rendered |-> FALSE]
NothingShown == message = NoMessage /\ display = NoDisplay

Init ==
  /\ \E tok \in {NoToken, SessionToken} : InitFor(tok, "untracked")
  /\ NothingShown

Room == BagCardinality(inflight) < MaxInflight

(***************************************************************************)
(* fetchData (lines 261-344)                                               *)
(***************************************************************************)
\* Variant of the setters that keeps the old records and adds the new ones.
StoreMergedOnThen(s, resp) ==
  [r \in Resources |-> IF r \in Watched THEN s[r] \o resp[r] ELSE resp[r]]

\* Lines 274-281: the eight setters, each given its own response's data.
StoreAfterThen(s, resp) == [r \in Resources |-> resp[r]]
AppliedByThen == Resources

\* Variant of the catch block that resets the collections.
StoreClearedOnCatch(s) == [r \in Resources |-> IF r \in Watched THEN <<>> ELSE InitialData]

\* Lines 340-343: the catch block calls no setter of a collection, and does
\* not rethrow.
StoreAfterCatch(s) == s
AppliedByCatch == {}
CatchRethrows == FALSE

\* The response interceptor (lines 209-216): a 401 starts a handleLogout,
\* which runs up to its await.
Intercepted(n, kind) == IF kind = "unauthorized" THEN n + 1 ELSE n

\* Promise.all fulfilled: lines 274-339, then the re-render and the effect.
FetchThen(c, resp, ids) ==
  LET d == Detection(c, lastProcessedIds, JournalState, resp, ids)
      changed == DepsChanged(token, loading, token, FALSE)
  IN /\ store' = StoreAfterThen(store, resp)
     /\ lastProcessedIds' = d.seen
     /\ notifications' = d.j.notifications
     /\ toasts' = d.j.toasts
     /\ toastTimers' = d.j.toastTimers
     /\ appends' = d.j.appends
     /\ loading' = FALSE
     /\ pollTimers' = EffectTimers(pollTimers, token, token, changed)
     /\ inflight' = EffectFetches(inflight (-) SetToBag({c}), token, FALSE, changed)
     /\ lastPoll' = [kind |-> "resolved", applied |-> AppliedByThen, rethrown |-> FALSE]
     /\ observed' = [t \in TypeSet |-> observed[t] \cup IdsOf(resp[ResourceOf(t)])]
     /\ UNCHANGED <<message, display, writes, appointmentFilter, token, user>>

\* Promise.all rejected: the catch block (lines 340-343), then the re-render
\* and the effect.
FetchCatch(c) ==
  LET changed == DepsChanged(token, loading, token, FALSE)
  IN /\ store' = StoreAfterCatch(store)
     /\ loading' = FALSE
     /\ pollTimers' = EffectTimers(pollTimers, token, token, changed)
     /\ inflight' = EffectFetches(inflight (-) SetToBag({c}), token, FALSE, changed)
     /\ lastPoll' = [kind |-> "rejected", applied |-> AppliedByCatch,
                     rethrown |-> CatchRethrows]
     /\ UNCHANGED <<message, display, writes, appointmentFilter,
                    token, user, lastProcessedIds, notifications, toasts, toastTimers,
                    observed, appends>>

\* A batch whose eight requests all succeeded.
FetchResolved ==
  \E c \in BagToSet(inflight), resp \in Responses :
    \E ids \in [1..Draws(c, lastProcessedIds, JournalState, resp) -> NotifIds] :
      /\ appends + Draws(c, lastProcessedIds, JournalState, resp) <= MaxNotifs
      /\ FetchThen(c, resp, ids)
      /\ UNCHANGED <<requests, logoutsInFlight>>

\* A batch one of whose requests failed, with a network/server error or
\* with a 401.
FetchRejected ==
  \E c \in BagToSet(inflight), kind \in {"error", "unauthorized"} :
    /\ Intercepted(logoutsInFlight, kind) <= MaxLogouts
    /\ logoutsInFlight' = Intercepted(logoutsInFlight, kind)
    /\ FetchCatch(c)
    /\ UNCHANGED requests

\* setInterval(fetchData, 15000) fires.
IntervalTick ==
  /\ pollTimers # <<>>
  /\ Room
  /\ inflight' = Issue(inflight, loading)
  /\ UNCHANGED <<message, display, writes, appointmentFilter,
                 token, user, loading, store, lastProcessedIds, notifications, toasts,
                 toastTimers, pollTimers, requests, logoutsInFlight, lastPoll,
                 observed, appends>>

\* The Refresh button (line 682), rendered only with a token (line 492).
ManualRefresh ==
  /\ HasSession(token)
  /\ Room
  /\ inflight' = Issue(inflight, loading)
  /\ UNCHANGED <<message, display, writes, appointmentFilter,
                 token, user, loading, store, lastProcessedIds, notifications, toasts,
                 toastTimers, pollTimers, requests, logoutsInFlight, lastPoll,
                 observed, appends>>

(***************************************************************************)
(* Session (lines 225-230, 248-259)                                        *)
(***************************************************************************)
\* onLoginSuccess, called by the login form shown while there is no token.
Login ==
  /\ ~HasSession(token)
  /\ Room
  /\ LET changed == DepsChanged(token, loading, SessionToken, loading)
     IN /\ token' = SessionToken
        /\ user' = SessionUser
        /\ pollTimers' = EffectTimers(pollTimers, token, SessionToken, changed)
        /\ inflight' = EffectFetches(inflight, SessionToken, loading, changed)
  /\ UNCHANGED <<message, display, writes, appointmentFilter,
                 loading, store, lastProcessedIds, notifications, toasts, toastTimers,
                 requests, logoutsInFlight, lastPoll, observed, appends>>

\* handleLogout up to its await: the Logout and Sign Out buttons.
ClickLogout ==
  /\ HasSession(token)
  /\ logoutsInFlight < MaxLogouts
  /\ logoutsInFlight' = logoutsInFlight + 1
  /\ UNCHANGED <<message, display, writes, appointmentFilter,
                 token, user, loading, store, lastProcessedIds, notifications, toasts,
                 toastTimers, pollTimers, inflight, requests, lastPoll, observed,
                 appends>>

\* handleLogout after its await: the finally block, whatever the response.
\* A 401 response first passes the interceptor, which starts a new handleLogout.
LogoutSettled ==
  \E outcome \in {"ok", "error", "unauthorized"} :
    LET changed == DepsChanged(token, loading, NoToken, loading)
    IN /\ logoutsInFlight > 0
       /\ token' = NoToken
       /\ user' = NoUser
       /\ pollTimers' = EffectTimers(pollTimers, token, NoToken, changed)
       /\ inflight' = EffectFetches(inflight, NoToken, loading, changed)
       /\ logoutsInFlight' = Intercepted(logoutsInFlight - 1, outcome)
       /\ UNCHANGED <<message, display, writes, appointmentFilter,
                      loading, store, lastProcessedIds, notifications, toasts,
                      toastTimers, requests, lastPoll, observed, appends>>

Next ==
  \/ FetchResolved
  \/ FetchRejected
  \/ IntervalTick
  \/ ManualRefresh
  \/ Login
  \/ ClickLogout
  \/ LogoutSettled

Spec == Init /\ [][Next]_vars

(***************************************************************************)
(* The mount-time batch, one request at a time (lines 263-272).            *)
(* Promise.all fulfils when the last of its promises fulfils and rejects   *)
(* when the first of them rejects, whatever the others are doing; the      *)
(* requests that are still pending then settle later, unobserved by        *)
(* fetchData but still passing the response interceptor.                   *)
(***************************************************************************)
InitBatch == InitFor(SessionToken, "pending") /\ NothingShown

\* The fetchData call made by the mount effect.
BatchClosure == Closure(TRUE)

\* The await of line 263 has not resumed yet.
BatchAwaiting == lastPoll.kind = "none"

RequestFulfilled ==
  \E r \in Resources :
    /\ requests[r] = "pending"
    /\ requests' = [requests EXCEPT ![r] = "fulfilled"]
    /\ UNCHANGED logoutsInFlight
    /\ IF BatchAwaiting /\ \A q \in Resources \ {r} : requests[q] = "fulfilled"
       THEN \E resp \in Responses : FetchThen(BatchClosure, resp, <<>>)
       ELSE UNCHANGED <<message, display, writes, appointmentFilter,
                        token, user, loading, store, lastProcessedIds, notifications,
                        toasts, toastTimers, pollTimers, inflight, lastPoll, observed,
                        appends>>

RequestRejected ==
  \E r \in Resources, kind \in {"error", "unauthorized"} :
    /\ requests[r] = "pending"
    /\ Intercepted(logoutsInFlight, kind) <= MaxLogouts
    /\ requests' = [requests EXCEPT ![r] = "rejected"]
    /\ logoutsInFlight' = Intercepted(logoutsInFlight, kind)
    /\ IF BatchAwaiting
       THEN FetchCatch(BatchClosure)
       ELSE UNCHANGED <<message, display, writes, appointmentFilter,
                        token, user, loading, store, lastProcessedIds, notifications,
                        toasts, toastTimers, pollTimers, inflight, lastPoll, observed,
                        appends>>

NextBatch ==
  \/ RequestFulfilled
  \/ RequestRejected
  \/ LogoutSettled

SpecBatch == InitBatch /\ [][NextBatch]_vars

(***************************************************************************)
(* Journal and toast handlers of the authenticated view                    *)
(***************************************************************************)
\* Click on a journal entry (lines 638-644).
MarkRead ==
  \E i \in 1..Len(notifications) :
    /\ HasSession(token)
    /\ notifications' = MarkReadOp(notifications, notifications[i].id)
    /\ UNCHANGED <<message, display, writes, appointmentFilter,
                   token, user, loading, store, lastProcessedIds, toasts, toastTimers,
                   pollTimers, inflight, requests, logoutsInFlight, lastPoll, observed,
                   appends>>

\* markAllAsRead (lines 428-430).
MarkAllRead ==
  /\ HasSession(token)
  /\ notifications' = MarkAllReadOp(notifications)
  /\ UNCHANGED <<message, display, writes, appointmentFilter,
                 token, user, loading, store, lastProcessedIds, toasts, toastTimers,
                 pollTimers, inflight, requests, logoutsInFlight, lastPoll, observed,
                 appends>>

\* Variant of the toast click that also marks the journal entry read.
DismissToastAndRead ==
  \E i \in 1..Len(toasts) :
    /\ HasSession(token)
    /\ toasts' = ToastRemove(toasts, toasts[i].id)
    /\ notifications' = MarkReadOp(notifications, toasts[i].id)
    /\ UNCHANGED <<message, display, writes, appointmentFilter,
                   token, user, loading, store, lastProcessedIds, toastTimers,
                   pollTimers, inflight, requests, logoutsInFlight, lastPoll,
                   observed, appends>>

\* Click on a toast or on its X button (lines 1841-1868).
DismissToast ==
  \E i \in 1..Len(toasts) :
    /\ HasSession(token)
    /\ toasts' = ToastRemove(toasts, toasts[i].id)
    /\ UNCHANGED <<message, display, writes, appointmentFilter,
                   token, user, loading, store, lastProcessedIds, notifications,
                   toastTimers, pollTimers, inflight, requests, logoutsInFlight,
                   lastPoll, observed, appends>>

\* The setTimeout callback of addNotification (lines 243-245).  All timeouts
\* have the same delay, so they fire in the order they were set.
ExpireToast ==
  /\ toastTimers # <<>>
  /\ toasts' = ToastRemove(toasts, Head(toastTimers).notif.id)
  /\ toastTimers' = Tail(toastTimers)
  /\ UNCHANGED <<message, display, writes, appointmentFilter,
                 token, user, loading, store, lastProcessedIds, notifications,
                 pollTimers, inflight, requests, logoutsInFlight, lastPoll, observed,
                 appends>>

\* One addNotification call (lines 232-246), as a detection pass makes it
\* (lines 299, 313, 327).
Notified(notif, id) ==
  LET j == AddNotification(JournalState, notif, id)
  IN /\ notifications' = j.notifications
     /\ toasts' = j.toasts
     /\ toastTimers' = j.toastTimers
     /\ appends' = j.appends
     /\ UNCHANGED <<message, display, writes, appointmentFilter,
                    token, user, loading, store, lastProcessedIds, pollTimers,
                    inflight, requests, logoutsInFlight, lastPoll, observed>>

InitJournal == InitFor(SessionToken, "untracked") /\ NothingShown

\* A notification about any record, with any id the generator can return.
Notify ==
  \E t \in TypeSet : \E ref \in IdsFor(t), id \in NotifIds :
    /\ appends < MaxNotifs
    /\ Notified([type |-> t, ref |-> ref], id)

NextJournal ==
  \/ Notify
  \/ MarkRead
  \/ MarkAllRead
  \/ DismissToast
  \/ ExpireToast

SpecJournal == InitJournal /\ [][NextJournal]_vars

\* The n-th of a row of notifications: its content is numbered n, its type
\* and id cycle through the types and the ids.
NotifyNext ==
  /\ appends < MaxAppends
  /\ Notified([type |-> Types[(appends % Len(Types)) + 1], ref |-> appends + 1],
              (appends % MaxNotifId) + 1)

NextCapacity ==
  \/ NotifyNext
  \/ MarkAllRead

SpecCapacity == InitJournal /\ [][NextCapacity]_vars

(***************************************************************************)
(* Properties                                                              *)
(***************************************************************************)
\* Journal records about record x of watched type t.  At the bounds of Spec
\* the journal never evicts, so this counts the notifications ever emitted.
Emitted(journal, t, x) ==
  Cardinality({i \in 1..Len(journal) : journal[i].type = t /\ journal[i].ref = x})

\* A baseline exists: some seen-identity set is non-empty.
BaselineTaken == \E w \in Watched : lastProcessedIds[w] # {}

\* C1 (exactly-once): once a baseline exists, the poll that delivers an
\* identity for the first time adds exactly one notification about it, and
\* no step adds a notification about any other identity.
ExactlyOnce ==
  [][BaselineTaken =>
       \A t \in TypeSet : \A x \in IdsFor(t) :
         Emitted(notifications', t, x) =
           Emitted(notifications, t, x)
             + (IF x \in observed'[t] \ observed[t] THEN 1 ELSE 0)]_vars

\* C2: the first fetch to settle (the only step that takes loading from
\* true to false) changes neither the journal nor the toast list nor the
\* toast timers, and leaves the seen-identity sets alone: detection is skipped.
FirstPollSilent ==
  [][(loading /\ ~loading') =>
       /\ notifications' = notifications
       /\ toasts' = toasts
       /\ toastTimers' = toastTimers
       /\ lastProcessedIds' = lastProcessedIds]_vars

\* A first poll that delivered records and emitted nothing.
FirstPollHadRecords ==
  /\ ~loading
  /\ lastPoll.kind = "resolved"
  /\ \E w \in Watched : store[w] # <<>>
  /\ \A w \in Watched : lastProcessedIds[w] = {}
  /\ notifications = <<>>
  /\ toasts = <<>>

\* C3: each (type, identity) pair has at most one notification, and no step
\* adds a notification about an identity that is already in its seen set.
NoRepeat ==
  /\ [](\A t \in TypeSet : \A x \in IdsFor(t) : Emitted(notifications, t, x) <= 1)
  /\ [][\A t \in TypeSet : \A x \in lastProcessedIds[ResourceOf(t)] :
          Emitted(notifications', t, x) = Emitted(notifications, t, x)]_vars

\* A snapshot that carries a notified appointment twice.
SeenTwiceInOneSnapshot ==
  /\ store["appointments"] = <<1, 1>>
  /\ Emitted(notifications, "appointment", 1) = 1

\* C4: after n appends the journal holds the Min(n, 50) most recently
\* appended records, newest first (the n-th appended record is numbered n).
JournalHoldsNewest ==
  /\ Len(notifications) = Min(appends, JournalCap)
  /\ \A i \in 1..Len(notifications) : notifications[i].ref = appends - i + 1

\* 60 appends: 50 records, numbered 60 down to 11.
SixtyAppends ==
  /\ appends = 60
  /\ Len(notifications) = 50
  /\ notifications[1].ref = 60
  /\ notifications[50].ref = 11

\* All eight requests of the batch have settled.
BatchSettled == \A r \in Resources : requests[r] \in {"fulfilled", "rejected"}

\* C5: when the batch has settled, the store has been updated for every
\* resource whose request was fulfilled.
PartialSuccessApplied ==
  BatchSettled =>
    \A r \in Resources :
      requests[r] = "fulfilled" =>
        /\ r \in lastPoll.applied
        /\ r \in Unwatched => store[r] = Payload

\* C6: a rejected batch leaves the store, the seen sets, the journal and the
\* toast list unchanged, fetchData does not rethrow, and with a session the
\* interval timer is still scheduled.
FailedPollKeepsState ==
  [][FetchRejected =>
       /\ store' = store
       /\ lastProcessedIds' = lastProcessedIds
       /\ notifications' = notifications
       /\ toasts' = toasts
       /\ ~lastPoll'.rethrown
       /\ HasSession(token') => pollTimers' = <<PollIntervalMs>>]_vars

\* A poll failed after an earlier one had filled the store.
FailedAfterSuccess ==
  /\ lastPoll.kind = "rejected"
  /\ store["stats"] = Payload
  /\ \E w \in Watched : store[w] # <<>>
  /\ HasSession(token)
  /\ pollTimers # <<>>

\* C7: exactly one interval timer of 15 s is scheduled when there is a token
\* and none when there is not, and the step that establishes a session calls
\* fetchData at once.
PollingFollowsSession ==
  /\ [](pollTimers = IF HasSession(token) THEN <<PollIntervalMs>> ELSE <<>>)
  /\ [][(~HasSession(token) /\ HasSession(token')) =>
          inflight' = Issue(inflight, loading')]_vars

\* Logged out after a session that had polled: no timer is left.
StoppedByLogout ==
  /\ ~HasSession(token)
  /\ lastPoll.kind = "resolved"
  /\ pollTimers = <<>>
  /\ logoutsInFlight = 0

\* C8: while there is no token, no step changes the store, the seen sets,
\* the journal or the toast list.
LateResultsDiscarded ==
  [][~HasSession(token) =>
       /\ store' = store
       /\ lastProcessedIds' = lastProcessedIds
       /\ notifications' = notifications
       /\ toasts' = toasts]_vars

\* C9: dismissing a toast and the expiry of a toast leave the journal
\* unchanged; markRead and markAllAsRead leave the toast list unchanged.
ToastsAndJournalIndependent ==
  [][/\ (DismissToast \/ ExpireToast) => notifications' = notifications
     /\ (MarkRead \/ MarkAllRead) => toasts' = toasts]_vars

SameNotif(a, b) == a.id = b.id /\ a.type = b.type /\ a.ref = b.ref

\* One entry is unread though its toast is gone; another is read though its
\* toast is still shown.
ReadAndDismissedApart ==
  /\ \E i \in 1..Len(notifications) :
       /\ ~notifications[i].read
       /\ \A k \in 1..Len(toasts) : toasts[k].id # notifications[i].id
  /\ \E i \in 1..Len(notifications) :
       /\ notifications[i].read
       /\ \E k \in 1..Len(toasts) : SameNotif(toasts[k], notifications[i])

\* C10: the expiry of a toast that is no longer shown (it was dismissed
\* before) leaves the toast list unchanged, and a dismissal removes one toast.
SecondRemovalIsNoOp ==
  [][/\ ExpireToast =>
          ((\A k \in 1..Len(toasts) : toasts[k] # Head(toastTimers).notif)
             => toasts' = toasts)
     /\ DismissToast => Len(toasts') = Len(toasts) - 1]_vars

\* C11: for every id, in the journal or not (0 is never drawn), marking it
\* read twice gives the journal that marking it once gives, the two calls
\* together lower the unread count by at most 1, and an id that no record
\* carries leaves the journal as it is.
MarkReadIdempotent ==
  \A id \in 0..MaxNotifId :
    LET once == MarkReadOp(notifications, id)
        twice == MarkReadOp(once, id)
    IN /\ twice = once
       /\ UnreadCount(notifications) - UnreadCount(twice) <= 1
       /\ (\A i \in 1..Len(notifications) : notifications[i].id # id)
            => once = notifications

(***************************************************************************)
(* Message normalizer (parseMessageDisplay and formatMessageForDisplay,    *)
(* lines 435-466).  A JavaScript string is a sequence of characters.       *)
(***************************************************************************)
SP == " "
NL == "\n"
TAB == "\t"
\* The backspace character (U+0008), which has no escape in a TLA+ string.
BACKSPACE == "<U+0008>"
BSL == "\\"
APOS == "'"
QUOT == "\""

\* What String.prototype.trim removes and what \s matches.
Whitespace == {SP, NL, TAB}

\* What \w matches, among the characters that messages are made of here.
WordChars ==
  {"a", "b", "c", "d", "e", "i", "l", "n", "o", "p", "s", "t", "u", "x", "O"}

\* The string literals of the source.
OptionsMarker == <<"O", "p", "t", "i", "o", "n", "s", ":", " ">>
CommaSpace == <<",", " ">>
TextWord == <<"t", "e", "x", "t">>
ButtonsWord == <<"b", "u", "t", "t", "o", "n", "s">>
TitleWord == <<"t", "i", "t", "l", "e">>
IdWord == <<"i", "d">>
MessageSent == <<"M", "e", "s", "s", "a", "g", "e", " ", "s", "e", "n", "t">>
EscapedNewline == <<BSL, "n">>

\* s.trim()
RECURSIVE TrimStart(_)
TrimStart(s) ==
  IF s # <<>> /\ Head(s) \in Whitespace THEN TrimStart(Tail(s)) ELSE s

RECURSIVE TrimEnd(_)
TrimEnd(s) ==
  IF s # <<>> /\ s[Len(s)] \in Whitespace THEN TrimEnd(SubSeq(s, 1, Len(s) - 1)) ELSE s

Trim(s) == TrimEnd(TrimStart(s))

\* pat occurs in s at position i (positions count from 1).
OccursAt(s, i, pat) ==
  /\ i >= 1
  /\ i + Len(pat) - 1 <= Len(s)
  /\ SubSeq(s, i, i + Len(pat) - 1) = pat

\* s.indexOf(pat) + 1: the first position where pat occurs, 0 if none.
IndexOf(s, pat) ==
  LET hits == {i \in 1..Len(s) : OccursAt(s, i, pat)}
  IN IF hits = {} THEN 0 ELSE CHOOSE i \in hits : \A k \in hits : i <= k

\* s.includes(pat), s.startsWith(pat)
Includes(s, pat) == IndexOf(s, pat) # 0
StartsWith(s, pat) == OccursAt(s, 1, pat)

\* s.slice(from - 1), with from counted from 1.
SliceFrom(s, from) == SubSeq(s, from, Len(s))

\* s.split(sep), for a non-empty sep.
RECURSIVE Split(_, _)
Split(s, sep) ==
  LET i == IndexOf(s, sep)
  IN IF i = 0 THEN <<s>>
     ELSE <<SubSeq(s, 1, i - 1)>> \o Split(SliceFrom(s, i + Len(sep)), sep)

\* list.map((x) => x.trim())
TrimEach(list) == [i \in 1..Len(list) |-> Trim(list[i])]

\* list.filter(Boolean), for a list of strings
NonEmpty(list) == SelectSeq(list, LAMBDA x : x # <<>>)

\* s.replace(/'/g, '"')
DoubleQuotes(s) == [i \in 1..Len(s) |-> IF s[i] = APOS THEN QUOT ELSE s[i]]

\* The last position of the run of \w characters that starts at i.
RECURSIVE WordEnd(_, _)
WordEnd(s, i) ==
  IF i + 1 <= Len(s) /\ s[i + 1] \in WordChars THEN WordEnd(s, i + 1) ELSE i

\* s.replace(/(\w+):/g, '"$1":'), scanning from position i.  A run of \w
\* characters matches only as a whole: what follows any shorter part of it is
\* a \w character, not the colon.
RECURSIVE QuoteKeysFrom(_, _)
QuoteKeysFrom(s, i) ==
  IF i > Len(s) THEN <<>>
  ELSE IF s[i] \notin WordChars THEN <<s[i]>> \o QuoteKeysFrom(s, i + 1)
  ELSE LET j == WordEnd(s, i)
       IN IF j + 1 <= Len(s) /\ s[j + 1] = ":"
          THEN <<QUOT>> \o SubSeq(s, i, j) \o <<QUOT, ":">> \o QuoteKeysFrom(s, j + 2)
          ELSE SubSeq(s, i, j) \o QuoteKeysFrom(s, j + 1)

QuoteKeys(s) == QuoteKeysFrom(s, 1)

\* Variant without the g flag: text.replace(/\\n/, '\n').
ReplaceFirstEscapedNewline(s) ==
  LET i == IndexOf(s, EscapedNewline)
  IN IF i = 0 THEN s ELSE SubSeq(s, 1, i - 1) \o <<NL>> \o SliceFrom(s, i + 2)

\* text.replace(/\\n/g, '\n')
RECURSIVE ReplaceEscapedNewlines(_)
ReplaceEscapedNewlines(s) ==
  IF s = <<>> THEN <<>>
  ELSE IF OccursAt(s, 1, EscapedNewline)
       THEN <<NL>> \o ReplaceEscapedNewlines(SliceFrom(s, 3))
       ELSE <<Head(s)>> \o ReplaceEscapedNewlines(Tail(s))

(***************************************************************************)
(* JSON.parse (line 445), for texts made of strings, objects and arrays:   *)
(* no message here contains a number, the words true, false or null, or a  *)
(* \u escape.  A parse step returns [ok, value, pos]: whether it           *)
(* succeeded, what it read, and the position after it.                     *)
(***************************************************************************)
JString(chars) == [kind |-> "string", chars |-> chars]
JObject(members) == [kind |-> "object", members |-> members]
JArray(items) == [kind |-> "array", items |-> items]

\* SyntaxError
Thrown == [ok |-> FALSE]
Read(v, next) == [ok |-> TRUE, value |-> v, pos |-> next]

EndOfInput == "<end>"
At(s, i) == IF i >= 1 /\ i <= Len(s) THEN s[i] ELSE EndOfInput

RECURSIVE SkipWs(_, _)
SkipWs(s, i) == IF At(s, i) \in Whitespace THEN SkipWs(s, i + 1) ELSE i

\* Characters a JSON string may not contain unescaped (below U+0020).
ControlChars == {NL, TAB, BACKSPACE}

\* The character an escape stands for; EndOfInput when it is no escape.
Unescaped(e) ==
  CASE e = "n" -> NL
    [] e = "t" -> TAB
    [] e = "b" -> BACKSPACE
    [] e \in {QUOT, BSL, "/"} -> e
    [] OTHER -> EndOfInput

\* The rest of a string, after its opening quote.
RECURSIVE ParseChars(_, _, _)
ParseChars(s, i, acc) ==
  LET c == At(s, i)
  IN IF c = EndOfInput \/ c \in ControlChars THEN Thrown
     ELSE IF c = QUOT THEN Read(JString(acc), i + 1)
     ELSE IF c = BSL
          THEN IF Unescaped(At(s, i + 1)) = EndOfInput THEN Thrown
               ELSE ParseChars(s, i + 2, Append(acc, Unescaped(At(s, i + 1))))
     ELSE ParseChars(s, i + 1, Append(acc, c))

ParseString(s, i) == IF At(s, i) = QUOT THEN ParseChars(s, i + 1, <<>>) ELSE Thrown

RECURSIVE ParseValue(_, _)
RECURSIVE ParseMembers(_, _, _)
RECURSIVE ParseItems(_, _, _)

\* The members of an object, from the key at position i on.
ParseMembers(s, i, acc) ==
  LET key == ParseString(s, i)
  IN IF ~key.ok THEN Thrown
     ELSE LET colon == SkipWs(s, key.pos)
          IN IF At(s, colon) # ":" THEN Thrown
             ELSE LET v == ParseValue(s, colon + 1)
                  IN IF ~v.ok THEN Thrown
                     ELSE LET next == SkipWs(s, v.pos)
                              members == Append(acc, [key |-> key.value.chars,
                                                      value |-> v.value])
                          IN IF At(s, next) = "}" THEN Read(JObject(members), next + 1)
                             ELSE IF At(s, next) = ","
                                  THEN ParseMembers(s, SkipWs(s, next + 1), members)
                             ELSE Thrown

\* The items of an array, from the value at position i on.
ParseItems(s, i, acc) ==
  LET v == ParseValue(s, i)
  IN IF ~v.ok THEN Thrown
     ELSE LET next == SkipWs(s, v.pos)
              items == Append(acc, v.value)
          IN IF At(s, next) = "]" THEN Read(JArray(items), next + 1)
             ELSE IF At(s, next) = "," THEN ParseItems(s, next + 1, items)
             ELSE Thrown

ParseValue(s, i) ==
  LET j == SkipWs(s, i)
      c == At(s, j)
  IN IF c = QUOT THEN ParseString(s, j)
     ELSE IF c = "{"
          THEN IF At(s, SkipWs(s, j + 1)) = "}"
               THEN Read(JObject(<<>>), SkipWs(s, j + 1) + 1)
               ELSE ParseMembers(s, SkipWs(s, j + 1), <<>>)
     ELSE IF c = "["
          THEN IF At(s, SkipWs(s, j + 1)) = "]"
               THEN Read(JArray(<<>>), SkipWs(s, j + 1) + 1)
               ELSE ParseItems(s, j + 1, <<>>)
     ELSE Thrown

\* JSON.parse(s): one value, then nothing but whitespace.
JSONParse(s) ==
  LET v == ParseValue(s, 1)
  IN IF v.ok /\ SkipWs(s, v.pos) > Len(s) THEN v ELSE Thrown

\* v.name for a parsed value v: [defined, value].  Of the members of an
\* object with that key the last one counts; a string or an array has no
\* property called text, buttons, title or id.
Undefined == [defined |-> FALSE]
Property(v, name) ==
  IF v.kind # "object" THEN Undefined
  ELSE LET hits == {i \in 1..Len(v.members) : v.members[i].key = name}
       IN IF hits = {} THEN Undefined
          ELSE [defined |-> TRUE,
                value |-> v.members[CHOOSE i \in hits : \A k \in hits : k <= i].value]

\* JavaScript truthiness of a property: undefined and "" are falsy; objects,
\* arrays and non-empty strings are truthy.
Truthy(p) == p.defined /\ ~(p.value.kind = "string" /\ p.value.chars = <<>>)

(***************************************************************************)
(* parseMessageDisplay (lines 435-459)                                     *)
(***************************************************************************)
\* The options of a result: undefined, or an array of strings.
NoOptions == [present |-> FALSE, list |-> <<>>]
SomeOptions(list) == [present |-> TRUE, list |-> list]

\* A returned { text, options }.
Canonical(text, options) == [rendered |-> TRUE, text |-> text, options |-> options]

\* Lines 438-441: the "Options: " form.
DelimiterTier(s) ==
  LET idx == IndexOf(s, OptionsMarker)
  IN Canonical(Trim(SubSeq(s, 1, idx - 1)),
               SomeOptions(NonEmpty(TrimEach(
                 Split(SliceFrom(s, idx + Len(OptionsMarker)), CommaSpace)))))

\* An evaluation inside the try block: a value, or a TypeError / SyntaxError.
Threw == [threw |-> TRUE]
Value(v) == [threw |-> FALSE, value |-> v]

\* (p || '').trim() for a property p: an object or an array is truthy and
\* has no trim method.
TrimmedOrEmpty(p) ==
  IF ~Truthy(p) THEN Value(<<>>)
  ELSE IF p.value.kind = "string" THEN Value(Trim(p.value.chars))
  ELSE Threw

\* (b.title || b.id || '').trim()
ButtonLabel(b) ==
  LET title == Property(b, TitleWord)
      id == Property(b, IdWord)
  IN IF Truthy(title) THEN TrimmedOrEmpty(title) ELSE TrimmedOrEmpty(id)

\* buttons?.map(...).filter(Boolean): undefined stays undefined; a string or
\* an object has no map method.
ButtonOptions(buttons) ==
  IF ~buttons.defined THEN Value(NoOptions)
  ELSE IF buttons.value.kind # "array" THEN Threw
  ELSE LET items == buttons.value.items
           labels == [i \in 1..Len(items) |-> ButtonLabel(items[i])]
       IN IF \E i \in 1..Len(items) : labels[i].threw THEN Threw
          ELSE Value(SomeOptions(NonEmpty([i \in 1..Len(items) |-> labels[i].value])))

\* Lines 443-449: the try block.
TryStructured(s) ==
  LET json == JSONParse(QuoteKeys(DoubleQuotes(s)))
  IN IF ~json.ok THEN Threw
     ELSE LET text == TrimmedOrEmpty(Property(json.value, TextWord))
              options == ButtonOptions(Property(json.value, ButtonsWord))
          IN IF text.threw \/ options.threw THEN Threw
             ELSE Value(Canonical(IF text.value # <<>> THEN text.value ELSE MessageSent,
                                  options.value))

Quotes == {QUOT, APOS}

\* The first position from i on that holds a quote character, 0 if none.
NextQuote(s, i) ==
  LET hits == {q \in 1..Len(s) : q >= i /\ s[q] \in Quotes}
  IN IF hits = {} THEN 0 ELSE CHOOSE q \in hits : \A k \in hits : q <= k

\* /'word'\s*:\s*["']([^"']*)["']/ tried at position i: [matched, capture,
\* next], next being the position after the match.
NoMatch == [matched |-> FALSE]
KeyMatchAt(s, i, word) ==
  LET key == <<APOS>> \o word \o <<APOS>>
      colon == SkipWs(s, i + Len(key))
      open == SkipWs(s, colon + 1)
      close == NextQuote(s, open + 1)
  IN IF OccursAt(s, i, key) /\ At(s, colon) = ":" /\ At(s, open) \in Quotes /\ close # 0
     THEN [matched |-> TRUE, capture |-> SubSeq(s, open + 1, close - 1), next |-> close + 1]
     ELSE NoMatch

\* s.match(/'text'.../): the leftmost match.
FirstKeyMatch(s, word) ==
  LET hits == {i \in 1..Len(s) : KeyMatchAt(s, i, word).matched}
  IN IF hits = {} THEN NoMatch
     ELSE KeyMatchAt(s, CHOOSE i \in hits : \A k \in hits : i <= k, word)

\* s.match(/'title'.../g) mapped to its captures (lines 453-454); the second
\* replace of line 454 needs a quote in its subject, and a capture has none.
RECURSIVE AllKeyCaptures(_, _, _)
AllKeyCaptures(s, i, word) ==
  IF i > Len(s) THEN <<>>
  ELSE LET m == KeyMatchAt(s, i, word)
       IN IF m.matched THEN <<m.capture>> \o AllKeyCaptures(s, m.next, word)
          ELSE AllKeyCaptures(s, i + 1, word)

\* Lines 450-456: the catch block.
RegexFallback(s) ==
  LET textMatch == FirstKeyMatch(s, TextWord)
      text == IF textMatch.matched THEN textMatch.capture ELSE s
      options == AllKeyCaptures(s, 1, TitleWord)
  IN Canonical(IF text # <<>> THEN text ELSE s,
               IF options # <<>> THEN SomeOptions(options) ELSE NoOptions)

\* Line 442
LooksStructured(s) ==
  StartsWith(s, <<"{">>) /\ (Includes(s, TextWord) \/ Includes(s, ButtonsWord))

StructuredTier(s) ==
  LET tried == TryStructured(s)
  IN IF tried.threw THEN RegexFallback(s) ELSE tried.value

parseMessageDisplay(raw) ==
  IF raw = <<>> THEN Canonical(<<>>, NoOptions)
  ELSE LET s == Trim(raw)
       IN IF Includes(s, OptionsMarker) THEN DelimiterTier(s)
          ELSE IF LooksStructured(s) THEN StructuredTier(s)
          ELSE Canonical(s, NoOptions)

\* Lines 462-466
formatMessageForDisplay(raw) ==
  LET parsed == parseMessageDisplay(raw)
  IN Canonical(ReplaceEscapedNewlines(parsed.text), parsed.options)

(***************************************************************************)
(* The messages rendered: Interaction.message as the backend sends it      *)
(* (lines 93-104), free-form or a legacy dict-like string (line 434).      *)
(***************************************************************************)
RECURSIVE Join(_, _)
Join(list, sep) ==
  IF list = <<>> THEN <<>>
  ELSE IF Len(list) = 1 THEN list[1]
  ELSE list[1] \o sep \o Join(Tail(list), sep)

\* Free-form messages: up to MaxPieces pieces one after the other.
Pieces ==
  {<<"a">>, <<SP>>, CommaSpace, OptionsMarker, EscapedNewline, <<"{">>, TextWord}

Phrases == {Join(p, <<>>) : p \in SeqsUpTo(Pieces, MaxPieces)}

\* A field of a dict-like message: left out, or given with a value.
LeftOut == [given |-> FALSE, chars |-> <<>>]
Given(chars) == [given |-> TRUE, chars |-> chars]

TextFields ==
  {LeftOut, Given(<<>>), Given(<<"a">>), Given(<<SP, "a", SP>>),
   Given(<<"a">> \o EscapedNewline \o <<"b">>), Given(<<"a", ":">>),
   Given(<<"a", SP>> \o OptionsMarker \o <<"b">>)}

TitleFields == {LeftOut, Given(<<>>), Given(<<SP, "b", SP>>)}
IdFields == {LeftOut, Given(<<"c">>)}
Buttons == [title : TitleFields, id : IdFields]

ButtonLists ==
  {[given |-> FALSE, list |-> <<>>]}
    \cup {[given |-> TRUE, list |-> l] : l \in SeqsUpTo(Buttons, MaxButtons)}

\* How the keys are written: 'key' or key.
KeyStyles == {"quoted", "bare"}

WriteKey(word, style) == IF style = "quoted" THEN <<APOS>> \o word \o <<APOS>> ELSE word

\* 'key': 'value'
WriteField(word, field, style) ==
  IF field.given
  THEN <<WriteKey(word, style) \o <<":", SP, APOS>> \o field.chars \o <<APOS>>>>
  ELSE <<>>

WriteButton(b, style) ==
  <<"{">> \o Join(WriteField(TitleWord, b.title, style) \o WriteField(IdWord, b.id, style),
                  CommaSpace)
          \o <<"}">>

WriteButtons(buttons, style) ==
  IF buttons.given
  THEN <<WriteKey(ButtonsWord, style) \o <<":", SP, "[">>
           \o Join([i \in 1..Len(buttons.list) |-> WriteButton(buttons.list[i], style)],
                   CommaSpace)
           \o <<"]">>>>
  ELSE <<>>

WriteDict(text, buttons, style) ==
  <<"{">> \o Join(WriteField(TextWord, text, style) \o WriteButtons(buttons, style),
                  CommaSpace)
          \o <<"}">>

\* Dict-like messages, whole or with the last character missing.
Dicts ==
  LET whole == {WriteDict(t, b, st) : t \in TextFields, b \in ButtonLists, st \in KeyStyles}
  IN whole \cup {SubSeq(d, 1, Len(d) - 1) : d \in whole}

Messages == Phrases \cup Dicts

InitNormalize ==
  /\ InitFor(SessionToken, "untracked")
  /\ message \in Messages
  /\ display = NoDisplay

\* A feed item is rendered (lines 877, 1674, 1808).
RenderMessage ==
  /\ ~display.rendered
  /\ display' = formatMessageForDisplay(message)
  /\ UNCHANGED <<message, writes, appointmentFilter, token, user, loading, store,
                 lastProcessedIds, notifications,
                 toasts, toastTimers, pollTimers, inflight, requests, logoutsInFlight,
                 lastPoll, observed, appends>>

NextNormalize == RenderMessage

SpecNormalize == InitNormalize /\ [][NextNormalize]_vars

(***************************************************************************)
(* Properties of the normalizer                                            *)
(***************************************************************************)
\* The plain form: no "Options: " marker, and not a string that starts with
\* a brace and mentions text or buttons.
PlainForm(m) == ~Includes(m, OptionsMarker) /\ ~LooksStructured(m)

\* C12: rendering a message always yields a { text, options } value, and a
\* message in the plain form (with no escaped newline to convert) comes back
\* as text equal to the message, without options.
NeverRaisesAndDegrades ==
  display.rendered =>
    /\ DOMAIN display = {"rendered", "text", "options"}
    /\ (PlainForm(message) /\ ~Includes(message, EscapedNewline))
         => (display.text = message /\ ~display.options.present)

\* C13: a message that contains "Options: " is split at the first marker:
\* text is the part before it (trimmed, escaped newlines converted) and
\* options are the entries of the part after it, split on ", ", trimmed, the
\* empty ones removed, in order.
DelimiterSplits ==
  (display.rendered /\ Includes(message, OptionsMarker)) =>
    LET idx == IndexOf(message, OptionsMarker)
        before == SubSeq(message, 1, idx - 1)
        after == SliceFrom(message, idx + Len(OptionsMarker))
    IN /\ display.text = ReplaceEscapedNewlines(Trim(before))
       /\ display.options = SomeOptions(NonEmpty(TrimEach(Split(after, CommaSpace))))

\* What the message parses to as structured data.
Structured(m) == JSONParse(QuoteKeys(DoubleQuotes(Trim(m))))

\* A property that is left out or is a string.
StringOrAbsent(p) == p.defined => p.value.kind = "string"

\* The parse succeeded with a text that is a string (or absent) and buttons
\* that are an array (or absent) of entries with string titles and ids.
ParsedAsExpected(m) ==
  /\ ~Includes(m, OptionsMarker)
  /\ LooksStructured(Trim(m))
  /\ Structured(m).ok
  /\ LET json == Structured(m).value
         buttons == Property(json, ButtonsWord)
     IN /\ StringOrAbsent(Property(json, TextWord))
        /\ buttons.defined =>
             /\ buttons.value.kind = "array"
             /\ \A i \in 1..Len(buttons.value.items) :
                  /\ StringOrAbsent(Property(buttons.value.items[i], TitleWord))
                  /\ StringOrAbsent(Property(buttons.value.items[i], IdWord))

\* The characters of a property, "" when it is left out.
CharsOf(p) == IF p.defined THEN p.value.chars ELSE <<>>

\* The title of a button entry, else its id, trimmed.
LabelOf(b) ==
  IF CharsOf(Property(b, TitleWord)) # <<>>
  THEN Trim(CharsOf(Property(b, TitleWord)))
  ELSE Trim(CharsOf(Property(b, IdWord)))

\* C14: on a successful parse, text is the trimmed text field, or "Message
\* sent" when that is absent or empty; options are the non-empty labels of
\* the buttons, and are absent when there is none.
StructuredParse ==
  (display.rendered /\ ParsedAsExpected(message)) =>
    LET json == Structured(message).value
        text == Trim(CharsOf(Property(json, TextWord)))
        buttons == Property(json, ButtonsWord)
        labels == IF buttons.defined
                  THEN NonEmpty([i \in 1..Len(buttons.value.items) |->
                                   LabelOf(buttons.value.items[i])])
                  ELSE <<>>
    IN /\ display.text = ReplaceEscapedNewlines(IF text # <<>> THEN text ELSE MessageSent)
       /\ display.options = IF labels # <<>> THEN SomeOptions(labels) ELSE NoOptions

\* C15: a message in the plain form is returned as text character for
\* character (escaped newlines converted), without options.
PlainVerbatim ==
  (display.rendered /\ PlainForm(message)) =>
    /\ display.text = ReplaceEscapedNewlines(message)
    /\ ~display.options.present

\* Positions of s where a backslash is followed by n.
EscapesIn(s) == {i \in 1..Len(s) : OccursAt(s, i, EscapedNewline)}

\* s without its line breaks.
WithoutBreaks(s) == SelectSeq(s, LAMBDA c : c # NL)

\* s without its line breaks and without its backslash-n pairs.
RECURSIVE WithoutEscapes(_)
WithoutEscapes(s) ==
  IF s = <<>> THEN <<>>
  ELSE IF OccursAt(s, 1, EscapedNewline) THEN WithoutEscapes(SliceFrom(s, 3))
  ELSE IF Head(s) = NL THEN WithoutEscapes(Tail(s))
  ELSE <<Head(s)>> \o WithoutEscapes(Tail(s))

\* C16: whatever parseMessageDisplay returned, the rendered text has no
\* backslash-n left, has one line break for each backslash-n of the parsed
\* text and is otherwise that text; the options are those parsed.
EscapesConverted ==
  display.rendered =>
    LET parsed == parseMessageDisplay(message)
    IN /\ EscapesIn(display.text) = {}
       /\ Len(display.text) = Len(parsed.text) - Cardinality(EscapesIn(parsed.text))
       /\ WithoutBreaks(display.text) = WithoutEscapes(parsed.text)
       /\ display.options = parsed.options

\* Two escaped newlines became line breaks, and the options came through.
TwoBreaksRendered ==
  /\ display.rendered
  /\ Cardinality(EscapesIn(message)) = 2
  /\ Cardinality({i \in 1..Len(display.text) : display.text[i] = NL}) = 2
  /\ display.options.present
  /\ display.options.list # <<>>

(***************************************************************************)
(* Properties of a detection pass                                          *)
(***************************************************************************)
\* The step is the continuation of a fetchData call that runs the detection
\* block (line 284) on the snapshot it stores.
DetectionPass ==
  \E c \in BagToSet(inflight) :
    /\ DetectionRuns(c)
    /\ \E ids \in [1..Draws(c, lastProcessedIds, JournalState, store') -> NotifIds] :
         FetchThen(c, store', ids)

\* C17: when some seen set is non-empty, a detection pass adds one
\* notification for every identity of the snapshot that is not in the seen
\* set of its type, and puts that identity in the set.
DetectsEveryNew ==
  [][(BaselineTaken /\ DetectionPass) =>
       \A t \in TypeSet :
         \A x \in IdsOf(store'[ResourceOf(t)]) \ lastProcessedIds[ResourceOf(t)] :
           /\ Emitted(notifications', t, x) = Emitted(notifications, t, x) + 1
           /\ x \in lastProcessedIds'[ResourceOf(t)]]_vars

\* C18: a detection pass that finds all three seen sets empty adds no
\* notification and no toast, and leaves each set holding exactly the
\* identities of its type in the snapshot.
ColdStartSilent ==
  [][(~BaselineTaken /\ DetectionPass) =>
       /\ notifications' = notifications
       /\ toasts' = toasts
       /\ \A w \in Watched : lastProcessedIds'[w] = IdsOf(store'[w])]_vars

\* A cold-start pass took a snapshot with diagnostics as the baseline.
ColdStartTracked ==
  /\ lastPoll.kind = "resolved"
  /\ appends = 0
  /\ lastProcessedIds["diagnostics"] # {}
  /\ \A w \in Watched : lastProcessedIds[w] = IdsOf(store[w])

\* C19: the identity of every journal entry is in the seen set of the
\* entry's type, and no step removes an identity from a seen set.
JournalEntriesSeen ==
  /\ [](\A i \in 1..Len(notifications) :
          notifications[i].ref \in lastProcessedIds[ResourceOf(notifications[i].type)])
  /\ [][\A w \in Watched : lastProcessedIds[w] \subseteq lastProcessedIds'[w]]_vars

\* Logged out with an entry in the journal, its identity still in the set.
EntryKeptAfterLogout ==
  /\ ~HasSession(token)
  /\ notifications # <<>>
  /\ notifications[1].ref \in lastProcessedIds[ResourceOf(notifications[1].type)]

\* C20: once the continuation of the batch has run, on the success path or
\* on the failure path, none of the eight requests is pending.
ContinuationAfterAllSettled == lastPoll.kind # "none" => BatchSettled

(***************************************************************************)
(* Overlapping refreshes                                                   *)
(***************************************************************************)
InFlight == BagCardinality(inflight)

\* The store as one fully successful batch writes it.
WholeSnapshot(s) == s \in Responses

\* C21: a manual refresh is accepted while another refresh is in flight, a
\* refresh request adds its own call and cancels none, a continuation
\* settles its own call only, and every write of the store replaces all of
\* it by the collections of one batch, so that the store is never a blend
\* of the old collections and the new ones.
OverlappingRefreshesReplace ==
  /\ [](HasSession(token) /\ Room => ENABLED ManualRefresh)
  /\ [][/\ InFlight' >= InFlight - 1
        /\ (store' # store => WholeSnapshot(store'))
        /\ (lastPoll' # lastPoll /\ lastPoll'.kind = "resolved"
              => WholeSnapshot(store') /\ lastPoll'.applied = Resources)
        /\ (lastPoll'.kind = "rejected" => store' = store)]_vars

\* Two refreshes were in flight together after a first snapshot, and the
\* store holds the snapshot of a continuation that has run since.
TwoRefreshesOverlap ==
  /\ InFlight = 2
  /\ ~loading
  /\ lastPoll.kind = "resolved"
  /\ store["appointments"] # <<>>

(***************************************************************************)
(* Notification ids                                                        *)
(***************************************************************************)
Distinct(seq) == \A i, k \in 1..Len(seq) : i # k => seq[i].id # seq[k].id

\* C22: no two records of the journal carry the same id, and no two records
\* of the toast set do.
NotificationIdsUnique == Distinct(notifications) /\ Distinct(toasts)

(***************************************************************************)
(* Order of the events of one pass                                         *)
(***************************************************************************)
TypeRank(t) ==
  CASE t = "appointment" -> 1
    [] t = "diagnostic" -> 2
    [] t = "admission" -> 3

\* The toasts a step has added, oldest first: the events of the step in the
\* order they were emitted.
EmittedBy(before, after) == SubSeq(after, Len(before) + 1, Len(after))

\* C23: the events one poll emits come in resource-type order: every
\* appointment event before any diagnostic event and every diagnostic event
\* before any admission event.  The toast set shows them in that order and
\* the journal, newest first, in the opposite one.
EmittedInTypeOrder ==
  [][appends' > appends =>
       LET new == EmittedBy(toasts, toasts')
           k == appends' - appends
       IN /\ Len(new) = k
          /\ \A i, n \in 1..k : i < n => TypeRank(new[i].type) <= TypeRank(new[n].type)
          /\ \A i \in 1..k : notifications'[i] = new[k + 1 - i]]_vars

\* One poll has emitted a diagnostic event and an admission event.
TwoTypesInOnePoll ==
  /\ appends = 2
  /\ lastProcessedIds["appointments"] = {1}
  /\ Len(toasts) = 2
  /\ toasts[1].type = "diagnostic"
  /\ toasts[2].type = "admission"
  /\ notifications[1].type = "admission"
  /\ observed["admission"] = {1}
  /\ lastPoll.kind = "resolved"

(***************************************************************************)
(* The journal across the handlers of the view and the session: the        *)
(* handlers of SpecJournal together with the refresh button, logout and    *)
(* login.                                                                  *)
(***************************************************************************)
NextJournalSession ==
  \/ Notify
  \/ MarkRead
  \/ MarkAllRead
  \/ DismissToast
  \/ ExpireToast
  \/ ManualRefresh
  \/ ClickLogout
  \/ LogoutSettled
  \/ Login

SpecJournalSession == InitJournal /\ [][NextJournalSession]_vars

\* The record is what it was, or what it was with `read` turned from false
\* to true.
SameOrNowRead(old, new) == new = old \/ (~old.read /\ new = [old EXCEPT !.read = TRUE])

\* C24: a step that appends k records leaves every older record k places
\* further down the journal, unchanged or with `read` turned from false to
\* true; the only records that leave are those pushed beyond the capacity,
\* the oldest ones.  With k = 0 (markRead, markAllRead, toast dismissal,
\* toast expiry, a refresh request, logout, login) no record leaves.
JournalRecordsStable ==
  [][LET k == appends' - appends
     IN /\ k >= 0
        /\ Len(notifications') = Min(Len(notifications) + k, JournalCap)
        /\ \A i \in 1..k : ~notifications'[i].read
        /\ \A i \in 1..Len(notifications) :
             i + k <= JournalCap => SameOrNowRead(notifications[i], notifications'[i + k])]_vars

\* After a logout the journal still holds both records, the newer one read
\* and the older one unread, while both toasts are gone.
JournalOutlivesHandlers ==
  /\ ~HasSession(token)
  /\ Len(notifications) = 2
  /\ notifications[1].read
  /\ ~notifications[2].read
  /\ toasts = <<>>
  /\ toastTimers = <<>>

(***************************************************************************)
(* Status updates (lines 391-416): updateAppointmentStatus,                *)
(* updateDiagnosticStatus and updateAdmissionStatus                        *)
(***************************************************************************)
\* Variant of the handlers without the fetchData() call.
AfterWriteNoRefresh(bag, w) == bag

\* fetchData(), called after the await of the PUT: the fetchData of the
\* render the handler was created in.
AfterWrite(bag, w) == bag (+) SetToBag({w.closure})

\* A click on a status button: the handler runs up to its await.  The
\* buttons belong to the rows of the tables, which are rendered when
\* loading is false (line 694) and the collection has a record.
UpdateStatus ==
  \E t \in TypeSet :
    /\ HasSession(token)
    /\ ~loading
    /\ store[ResourceOf(t)] # <<>>
    /\ BagCardinality(writes) < MaxWrites
    /\ writes' = writes (+) SetToBag({[type |-> t, closure |-> Closure(loading)]})
    /\ UNCHANGED <<message, display, appointmentFilter, token, user, loading, store,
                   lastProcessedIds, notifications, toasts, toastTimers, pollTimers,
                   inflight, requests, logoutsInFlight, lastPoll, observed, appends>>

\* The PUT succeeded: the handler resumes and calls fetchData.
WriteSucceeded ==
  \E w \in BagToSet(writes) :
    /\ Room
    /\ writes' = writes (-) SetToBag({w})
    /\ inflight' = AfterWrite(inflight, w)
    /\ UNCHANGED <<message, display, appointmentFilter, token, user, loading, store,
                   lastProcessedIds, notifications, toasts, toastTimers, pollTimers,
                   requests, logoutsInFlight, lastPoll, observed, appends>>

\* The PUT failed: the response interceptor, then the catch block, which
\* logs the error.
WriteFailed ==
  \E w \in BagToSet(writes), kind \in {"error", "unauthorized"} :
    /\ Intercepted(logoutsInFlight, kind) <= MaxLogouts
    /\ writes' = writes (-) SetToBag({w})
    /\ logoutsInFlight' = Intercepted(logoutsInFlight, kind)
    /\ UNCHANGED <<message, display, appointmentFilter, token, user, loading, store,
                   lastProcessedIds, notifications, toasts, toastTimers, pollTimers,
                   inflight, requests, lastPoll, observed, appends>>

NextMutation ==
  \/ UpdateStatus
  \/ WriteSucceeded
  \/ WriteFailed
  \/ FetchResolved
  \/ LogoutSettled

SpecMutation == InitJournal /\ [][NextMutation]_vars

\* Nothing the engine shows or remembers has changed.
EngineStateKept ==
  UNCHANGED <<store, lastProcessedIds, notifications, toasts, toastTimers, loading>>

\* C25: a status update changes the snapshot store at no point of its own:
\* neither the click nor the settling of the write changes the store, the
\* seen sets, the journal or the toast set.  A successful write starts
\* exactly one refresh, a failed write starts none and leaves the calls in
\* flight as they were; the store changes only in the continuation of a
\* refresh.
StatusUpdateOnlyRefreshes ==
  [][/\ (writes' # writes => EngineStateKept)
     /\ (UpdateStatus => inflight' = inflight)
     /\ (WriteSucceeded =>
           /\ InFlight' = InFlight + 1
           /\ \E c \in BagToSet(inflight') : inflight' = inflight (+) SetToBag({c}))
     /\ (WriteFailed => inflight' = inflight)
     /\ (store' # store => writes' = writes /\ InFlight' <= InFlight)]_vars

\* A successful write has added its refresh to the one the effect started,
\* and a later write has failed with a 401 and added none.
RefreshedAfterWrite ==
  /\ writes = EmptyBag
  /\ inflight = Issue(Issue(EmptyBag, FALSE), FALSE)
  /\ logoutsInFlight = 1
  /\ HasSession(token)
  /\ store["admissions"] # <<>>

(***************************************************************************)
(* Responses with status 401                                               *)
(***************************************************************************)
\* The step has started no fetchData call.
NoCallStarted ==
  \A c \in BagToSet(inflight') : CopiesIn(c, inflight') <= CopiesIn(c, inflight)

\* C26: a 401 response ends the session without a retry: the step in which
\* the interceptor handles a 401 (it starts a handleLogout, which clears
\* the token when its request settles) issues no request again.
UnauthorizedNotReissued ==
  [][logoutsInFlight' > logoutsInFlight => NoCallStarted]_vars

\* C27: the logout that handles a 401 sends a bounded number of logout
\* requests: the settling of a logout request, whatever its answer, leaves
\* one logout request fewer in flight, so that the session ends with none.
LogoutChainEnds ==
  [][LogoutSettled => logoutsInFlight' = logoutsInFlight - 1]_vars

(***************************************************************************)
(* The appointment status filter (lines 170, 268, 344, 1079-1086).         *)
(* fetchData sends the filter with the appointments request and is         *)
(* re-created when the filter changes, which re-runs the polling effect.   *)
(* The backend of this specification holds the same appointments from the  *)
(* start on, one confirmed and one cancelled, and answers the appointments *)
(* request with those the status parameter selects.  The filter buttons    *)
(* are clicked between calls, so that every call in flight asks for the    *)
(* current filter.                                                         *)
(***************************************************************************)
StatusFilters == {AllStatuses, "confirmed", "completed", "cancelled"}

StatusOf(id) == IF id % 2 = 1 THEN "confirmed" ELSE "cancelled"

\* /api/appointments?status=<filter>
RECURSIVE Selected(_, _)
Selected(filter, n) ==
  IF n = 0 THEN <<>>
  ELSE IF filter = AllStatuses \/ StatusOf(n) = filter
       THEN Append(Selected(filter, n - 1), n)
       ELSE Selected(filter, n - 1)

BackendResponse(filter) == Response(Selected(filter, MaxAppointmentId), <<>>, <<>>)

\* A status button of the appointments tab, rendered when loading is false:
\* setAppointmentFilter, the re-render and the polling effect.
SetAppointmentFilter ==
  \E status \in StatusFilters \ {appointmentFilter} :
    /\ HasSession(token)
    /\ ~loading
    /\ inflight = EmptyBag
    /\ appointmentFilter' = status
    /\ pollTimers' = EffectTimers(pollTimers, token, token, TRUE)
    /\ inflight' = EffectFetches(inflight, token, loading, TRUE)
    /\ UNCHANGED <<message, display, writes, token, user, loading, store,
                   lastProcessedIds, notifications, toasts, toastTimers, requests,
                   logoutsInFlight, lastPoll, observed, appends>>

\* A batch answered by this backend.
FilteredFetchResolved ==
  \E c \in BagToSet(inflight) :
    LET resp == BackendResponse(appointmentFilter)
    IN \E ids \in [1..Draws(c, lastProcessedIds, JournalState, resp) -> NotifIds] :
         /\ appends + Draws(c, lastProcessedIds, JournalState, resp) <= MaxNotifs
         /\ FetchThen(c, resp, ids)
         /\ UNCHANGED <<requests, logoutsInFlight>>

NextFilter ==
  \/ SetAppointmentFilter
  \/ FilteredFetchResolved
  \/ FetchRejected
  \/ IntervalTick
  \/ Login
  \/ ClickLogout
  \/ LogoutSettled

SpecFilter == Init /\ [][NextFilter]_vars

\* C28: a change of filter produces no notification by itself: with a
\* backend in which no appointment ever appears after the start, whatever
\* the filter shows or hides, the journal and the toast set stay empty.
FilterChangeSilent == notifications = <<>> /\ toasts = <<>>

\* The step re-creates fetchData or changes the token: the polling effect
\* runs again.
EffectReruns ==
  loading' # loading \/ appointmentFilter' # appointmentFilter \/ token' # token

\* C29: at most one interval timer is scheduled at any time, across logins,
\* logouts, filter changes and changes of loading: every re-run of the
\* polling effect clears the interval of the previous run before it creates
\* one, so that it leaves one timer with a token and none without.
AtMostOneInterval ==
  /\ [](Len(pollTimers) <= 1)
  /\ [][EffectReruns =>
          /\ Len(pollTimers') = (IF HasSession(token') THEN 1 ELSE 0)
          /\ Len(pollTimers') <= Len(pollTimers) + 1]_vars

\* The effect has re-run for the end of loading and for two filter changes
\* at least, and one timer is scheduled.
OneIntervalAfterFilterChanges ==
  /\ HasSession(token)
  /\ ~loading
  /\ appointmentFilter = "completed"
  /\ lastProcessedIds["appointments"] = {2}
  /\ Len(pollTimers) = 1
  /\ InFlight = 2

(***************************************************************************)
(* A new session after a logout.  The App component stays mounted while    *)
(* the login form is shown (line 492), so its state and its ref survive    *)
(* the logout.  The initial states are those a first session leaves behind *)
(* when it took a snapshot as its baseline, emitted nothing and was logged *)
(* out with no call in flight; lastPoll starts again with the login, so    *)
(* that it records the calls of the new session.                           *)
(***************************************************************************)
InitRelogin ==
  \E resp \in Responses :
    /\ token = NoToken
    /\ user = NoUser
    /\ loading = FALSE
    /\ store = resp
    /\ lastProcessedIds = TrackAll([w \in Watched |-> {}], resp)
    /\ notifications = <<>>
    /\ toasts = <<>>
    /\ toastTimers = <<>>
    /\ pollTimers = <<>>
    /\ inflight = EmptyBag
    /\ requests = [r \in Resources |-> "untracked"]
    /\ logoutsInFlight = 0
    /\ lastPoll = NoPoll
    /\ observed = [t \in TypeSet |-> IdsOf(resp[ResourceOf(t)])]
    /\ appends = 0
    /\ writes = EmptyBag
    /\ appointmentFilter = AllStatuses
    /\ NothingShown

NextRelogin ==
  \/ Login
  \/ FetchResolved
  \/ FetchRejected
  \/ IntervalTick
  \/ ClickLogout
  \/ LogoutSettled

SpecRelogin == InitRelogin /\ [][NextRelogin]_vars

\* The first call of the new session to settle has resolved.
FirstPollOfSession == lastPoll.kind = "none" /\ lastPoll'.kind = "resolved"

\* C30: logout clears the token and the user and leaves the seen sets, the
\* journal and the toast set as they are, so the first poll of the session
\* that follows takes no new baseline: against the sets the previous
\* session left, it notifies every identity of its snapshot that they do
\* not hold, once, and adds it to its set.
LogoutKeepsBaseline ==
  /\ [][LogoutSettled =>
          /\ token' = NoToken /\ user' = NoUser
          /\ UNCHANGED <<lastProcessedIds, notifications, toasts, store>>]_vars
  /\ [][(BaselineTaken /\ FirstPollOfSession) =>
          \A t \in TypeSet :
            \A x \in IdsOf(store'[ResourceOf(t)]) \ lastProcessedIds[ResourceOf(t)] :
              /\ Emitted(notifications', t, x) = Emitted(notifications, t, x) + 1
              /\ x \in lastProcessedIds'[ResourceOf(t)]]_vars

====
